---- MODULE Spec2Model ----
(***************************************************************************)
(* The sliding-tile puzzle (taquin) solver: the board, the solvability     *)
(* test of Solver, and the three search strategies DFSSolver, BFSSolver    *)
(* and AStarSolver, each as a state machine over its own data structures.  *)
(*                                                                         *)
(* A configuration is the flattened tile array of the code, a sequence of  *)
(* size*size integers; TLA+ sequences are 1-based, so the code's index i   *)
(* is position i+1 here, while blank_pos keeps the code's 0-based value.   *)
(***************************************************************************)
EXTENDS Integers, Sequences, FiniteSets, TLC

VARIABLES
  solver,            \* which strategy's solve() is running
  size,              \* Board.size
  board,             \* Board.state of initial_board (flattened)
  blank_pos,         \* Board.blank_pos of initial_board
  optimal_length,    \* the argument of solve()
  pc,                \* position of the run: "call", "loop", "done", ...
  result,            \* the value solve() / is_solvable() returned
  queue,             \* BFS: deque of (state, level)
  visited,           \* BFS / DFS: visited set
  nodes_visited,     \* local nodes_visited of the running search
  current_level,     \* BFS: current_level
  open_set,          \* A*: heap list
  closed_set,        \* A*: closed set
  depth_limit,       \* DFS: depth_limit of the iteration
  stack,             \* DFS: frames of dfs_with_depth_limit, root first
  current_path,      \* DFS: current_path set
  solution,          \* DFS: value returned by the outermost dfs_with_depth_limit
  total_nodes_visited, \* DFS: total_nodes_visited
  solvable_calls,    \* number of evaluations of is_solvable in this run
  dist,              \* reference: least number of moves to the goal, -1 if none
  state_obj,         \* a search State that make_move is called on, None before from_board
  call,              \* the last make_move call: receiver before and after, direction, value returned
  first_result       \* the value solve() / is_solvable() returned in the first of several calls

\* The variables no search touches.
aux == <<state_obj, call, first_result>>

vars == <<solver, size, board, blank_pos, optimal_length, pc, result, queue,
          visited, nodes_visited, current_level, open_set, closed_set,
          depth_limit, stack, current_path, solution, total_nodes_visited,
          solvable_calls, dist, aux>>

-----------------------------------------------------------------------------
(* Python values that a result field can hold.                             *)

PyNone == [tag |-> "None"]
PyList(s) == [tag |-> "list", items |-> s]
PyInt(i) == [tag |-> "int", val |-> i]
PyBool(b) == [tag |-> "bool", val |-> b]
\* No value yet (a name not bound so far).
Unset == [tag |-> "unset"]
PyEnum(n) == [tag |-> "SolutionStatus", name |-> n]

UP == "UP"
DOWN == "DOWN"
LEFT == "LEFT"
RIGHT == "RIGHT"
Direction == {UP, DOWN, LEFT, RIGHT}

SolutionStatus == {"SOLVED", "ALREADY_SOLVED", "UNSOLVABLE", "NO_SOLUTION"}

\* SolutionInfo(status, moves=None, optimal_length=None): the dataclass takes
\* its fields in this order, positionally or by keyword.
SolutionInfo(status, moves, opt) ==
  [tag |-> "SolutionInfo", status |-> status, moves |-> moves, optimal_length |-> opt]

MAX_DEPTH_DFS == 30
MAX_DEPTH_BFS == 30

-----------------------------------------------------------------------------
(* Board and State: the operations every State class and Board share.      *)

Abs(x) == IF x < 0 THEN -x ELSE x

\* Board.__init__: blank_pos starts at 0 and is set at every cell holding 0,
\* so it ends at the last such cell.
Board_blank_pos(tiles) ==
  LET zeros == {i \in 1..Len(tiles) : tiles[i] = 0}
  IN  IF zeros = {} THEN 0 ELSE (CHOOSE i \in zeros : \A j \in zeros : j <= i) - 1

\* A goal test that looks only at where the blank is.
is_goal_blank_only(tiles) == tiles[Len(tiles)] = 0

is_goal(tiles) ==
  \A i \in 0..(Len(tiles) - 1) :
    IF i = Len(tiles) - 1 THEN tiles[i + 1] = 0 ELSE tiles[i + 1] = i + 1

get_possible_moves(bp, n) ==
  LET row == bp \div n
      col == bp % n
  IN  (IF row > 0 THEN <<UP>> ELSE <<>>)
      \o (IF row < n - 1 THEN <<DOWN>> ELSE <<>>)
      \o (IF col > 0 THEN <<LEFT>> ELSE <<>>)
      \o (IF col < n - 1 THEN <<RIGHT>> ELSE <<>>)

\* A new_pos that lets LEFT and RIGHT cross the edge of a row.
new_pos_rows_joined(bp, n, direction) ==
  LET row == bp \div n
  IN  IF direction = UP /\ row > 0 THEN bp - n
      ELSE IF direction = DOWN /\ row < n - 1 THEN bp + n
      ELSE IF direction = LEFT /\ bp > 0 THEN bp - 1
      ELSE IF direction = RIGHT /\ bp < n * n - 1 THEN bp + 1
      ELSE -1

\* The new_pos of make_move, -1 where the code returns None / False.
new_pos(bp, n, direction) ==
  LET row == bp \div n
      col == bp % n
  IN  IF direction = UP /\ row > 0 THEN bp - n
      ELSE IF direction = DOWN /\ row < n - 1 THEN bp + n
      ELSE IF direction = LEFT /\ col > 0 THEN bp - 1
      ELSE IF direction = RIGHT /\ col < n - 1 THEN bp + 1
      ELSE -1

\* A swap that writes the tile over the blank and not the blank over the tile.
swap_tile_only(tiles, bp, np) == [tiles EXCEPT ![bp + 1] = tiles[np + 1]]

\* new_state[blank_pos], new_state[new_pos] = new_state[new_pos], new_state[blank_pos]
swap(tiles, bp, np) ==
  [tiles EXCEPT ![bp + 1] = tiles[np + 1], ![np + 1] = tiles[bp + 1]]

\* A sum that also counts how far the blank is from the last cell.
manhattan_distance_with_blank(tiles, n) ==
  LET term(pos) ==
        LET value == IF tiles[pos + 1] = 0 THEN n * n ELSE tiles[pos + 1]
        IN  Abs((pos \div n) - ((value - 1) \div n))
            + Abs((pos % n) - ((value - 1) % n))
      sum[k \in 0..Len(tiles)] == IF k = 0 THEN 0 ELSE sum[k - 1] + term(k - 1)
  IN  sum[Len(tiles)]

manhattan_distance(tiles, n) ==
  LET term(pos) ==
        LET value == tiles[pos + 1]
        IN  IF value # 0
            THEN Abs((pos \div n) - ((value - 1) \div n))
                 + Abs((pos % n) - ((value - 1) % n))
            ELSE 0
      sum[k \in 0..Len(tiles)] == IF k = 0 THEN 0 ELSE sum[k - 1] + term(k - 1)
  IN  sum[Len(tiles)]

\* State.from_board of bfs.py and dfs.py.
from_board(tiles, bp, n) ==
  [state |-> tiles, blank_pos |-> bp, size |-> n, path |-> <<>>]

\* State.make_move of bfs.py and dfs.py: PyNone for an illegal direction, else
\* a new State with the blank and the adjacent tile swapped and the move appended.
make_move(s, direction) ==
  LET np == new_pos(s.blank_pos, s.size, direction)
  IN  IF np = -1 THEN PyNone
      ELSE [state |-> swap(s.state, s.blank_pos, np),
            blank_pos |-> np,
            size |-> s.size,
            path |-> Append(s.path, direction)]

-----------------------------------------------------------------------------
(* Solver.get_inversions and Solver.is_solvable.                           *)

\* An inversion count that takes the blank for a tile numbered 0.
get_inversions_with_blank(tiles) ==
  Cardinality({p \in (1..Len(tiles)) \X (1..Len(tiles)) :
                 /\ p[1] < p[2]
                 /\ tiles[p[2]] < tiles[p[1]]})

get_inversions(tiles) ==
  Cardinality({p \in (1..Len(tiles)) \X (1..Len(tiles)) :
                 /\ p[1] < p[2]
                 /\ tiles[p[1]] # 0
                 /\ tiles[p[2]] # 0
                 /\ tiles[p[2]] < tiles[p[1]]})

\* An is_solvable that leaves the row of the blank out on even sizes too.
is_solvable_ignoring_blank_row(tiles, bp, n) == get_inversions(tiles) % 2 = 0

is_solvable(tiles, bp, n) ==
  LET inversions == get_inversions(tiles)
      blank_row == bp \div n
  IN  IF n % 2 = 1
      THEN inversions % 2 = 0
      ELSE (inversions + (n - blank_row)) % 2 = 0

-----------------------------------------------------------------------------
(* Reference facts about the puzzle graph, computed by exhaustive search   *)
(* over grid adjacency, independently of the code's move generation.       *)

Goal(n) == [i \in 1..(n * n) |-> IF i = n * n THEN 0 ELSE i]

\* Every permutation of 0..n*n-1 laid out as an n x n board.
AllBoards(n) == {[i \in 1..(n * n) |-> f[i - 1]] : f \in Permutations(0..(n * n - 1))}

RefBlank(t) == CHOOSE i \in 1..Len(t) : t[i] = 0

RefAdjacent(i, j, n) ==
  Abs(((i - 1) \div n) - ((j - 1) \div n)) + Abs(((i - 1) % n) - ((j - 1) % n)) = 1

RefSlide(t, j) == LET b == RefBlank(t) IN [t EXCEPT ![b] = t[j], ![j] = 0]

\* The configurations one slide away from those of `front`, leaving out `prev`.
\* A slide can be undone, so the configurations at distance k+1 are the
\* neighbours of those at distance k that are not at distance k-1.
RefNextLevel(front, prev, n) ==
  {RefSlide(p[1], p[2]) :
     p \in {q \in front \X (1..(n * n)) :
              /\ RefAdjacent(RefBlank(q[1]), q[2], n)
              /\ RefSlide(q[1], q[2]) \notin prev}}

\* <<L0, L1, ...>>: Lk is the set of configurations at distance k from `t0`,
\* for k up to `depth` or the last non-empty level.
RECURSIVE RefLevelsFrom(_, _, _, _, _)
RefLevelsFrom(front, prev, n, depth, acc) ==
  IF front = {} THEN acc
  ELSE IF Len(acc) = depth THEN Append(acc, front)
  ELSE RefLevelsFrom(RefNextLevel(front, prev, n), front, n, depth, Append(acc, front))

RefLevels(t0, n, depth) == RefLevelsFrom({t0}, {}, n, depth, <<>>)

\* The distance of t from the configuration the levels start at, -1 if t is
\* in none of them.
RefDist(levels, t) ==
  IF \E k \in 1..Len(levels) : t \in levels[k]
  THEN (CHOOSE k \in 1..Len(levels) : t \in levels[k]) - 1
  ELSE -1

\* More levels than any board of size <= 3 has (the 3 x 3 board has 32).
FullDepth == 40

-----------------------------------------------------------------------------
(* The parts of the state a run does not use.                              *)

NoSearchState ==
  /\ queue = <<>>
  /\ visited = {}
  /\ nodes_visited = 0
  /\ current_level = 0
  /\ open_set = <<>>
  /\ closed_set = {}
  /\ depth_limit = 0
  /\ stack = <<>>
  /\ current_path = {}
  /\ solution = PyNone
  /\ total_nodes_visited = 0
  /\ state_obj = PyNone
  /\ call = PyNone
  /\ first_result = Unset

-----------------------------------------------------------------------------
(* SpecSolvable: Solver.is_solvable on every board of size 2 and 3.        *)

Sizes == {2, 3}

InitSolvable ==
  /\ solver = "is_solvable"
  /\ size \in Sizes
  /\ \E levels \in {RefLevels(Goal(size), size, FullDepth)} :
       /\ board \in AllBoards(size)
       /\ dist = RefDist(levels, board)
  /\ blank_pos = Board_blank_pos(board)
  /\ optimal_length = PyNone
  /\ pc = "call"
  /\ result = PyNone
  /\ solvable_calls = 0
  /\ NoSearchState

IsSolvableCall ==
  /\ pc = "call"
  /\ solver = "is_solvable"
  /\ result' = PyBool(is_solvable(board, blank_pos, size))
  /\ solvable_calls' = solvable_calls + 1
  /\ pc' = "done"
  /\ UNCHANGED <<solver, size, board, blank_pos, optimal_length, queue, visited,
                 nodes_visited, current_level, open_set, closed_set, depth_limit,
                 stack, current_path, solution, total_nodes_visited, dist, aux>>

NextSolvable == IsSolvableCall

SpecSolvable == InitSolvable /\ [][NextSolvable]_vars

\* C5: on a 3 x 3 board is_solvable returns true exactly for the permutations
\* from which the goal configuration can be reached by legal moves.
C5_OddBoardSolvability ==
  (pc = "done" /\ solver = "is_solvable" /\ size = 3)
    => (result = PyBool(dist >= 0))

C5_Witness ==
  /\ pc = "done" /\ solver = "is_solvable" /\ size = 3
  /\ dist = 31
  /\ result = PyBool(TRUE)

\* C6: on a 2 x 2 board is_solvable returns true exactly for the configurations
\* from which the goal configuration can be reached, the goal itself included.
C6_EvenBoardSolvability ==
  (pc = "done" /\ solver = "is_solvable" /\ size = 2)
    => (result = PyBool(dist >= 0))

-----------------------------------------------------------------------------
(* The inputs of the searches: every 2 x 2 board, the 3 x 3 boards within  *)
(* MaxDist moves of the goal, and the 3 x 3 boards within MaxDistSwapped   *)
(* moves of the goal with tiles 7 and 8 exchanged (none of which can reach *)
(* the goal).                                                              *)

MaxDist == 6
MaxDistSwapped == 2
OptimalLengths == {PyNone, PyInt(4)}

Within(levels, k) == UNION {levels[j] : j \in 1..(IF k + 1 < Len(levels) THEN k + 1 ELSE Len(levels))}

ExchangeTiles(t, a, b) ==
  [i \in 1..Len(t) |-> IF t[i] = a THEN b ELSE IF t[i] = b THEN a ELSE t[i]]

Inputs(levels, n) ==
  IF n = 2 THEN AllBoards(2)
  ELSE Within(levels, MaxDist)
       \cup {ExchangeTiles(t, 7, 8) : t \in Within(levels, MaxDistSwapped)}

\* dist is the reference distance to the goal, -1 when the goal is not within
\* the levels searched: on a 2 x 2 board that is every level there is.
InitSearch(s) ==
  /\ solver = s
  /\ size \in Sizes
  /\ \E levels \in {RefLevels(Goal(size), size, IF size = 2 THEN FullDepth ELSE MaxDist)} :
       /\ board \in Inputs(levels, size)
       /\ dist = RefDist(levels, board)
  /\ blank_pos = Board_blank_pos(board)
  /\ optimal_length \in OptimalLengths
  /\ pc = "call"
  /\ result = PyNone
  /\ solvable_calls = 0
  /\ NoSearchState

Return(r) ==
  /\ result' = r
  /\ pc' = "done"

-----------------------------------------------------------------------------
(* BFSSolver.                                                              *)

BFS_evaluate_move(current, next_state, vis) ==
  IF next_state.state \in vis THEN "BAD" ELSE "VALID"

\* The list possible_moves of solve: (direction, next_state, quality) for every
\* direction of get_possible_moves whose make_move gives a state.
BFS_possible_moves(current, vis) ==
  LET dirs == get_possible_moves(current.blank_pos, current.size)
      entry(d) == LET nxt == make_move(current, d)
                  IN  <<d, nxt, BFS_evaluate_move(current, nxt, vis)>>
      ok == {i \in 1..Len(dirs) : make_move(current, dirs[i]) # PyNone}
      collect[k \in 0..Len(dirs)] ==
        IF k = 0 THEN <<>>
        ELSE IF k \in ok THEN Append(collect[k - 1], entry(dirs[k]))
        ELSE collect[k - 1]
  IN  collect[Len(dirs)]

\* A queueing loop that leaves the visited set as it is.
RECURSIVE BFS_enqueue_unmarked(_, _, _, _)
BFS_enqueue_unmarked(moves, q, vis, level) ==
  IF moves = <<>> THEN <<q, vis>>
  ELSE LET m == Head(moves)
       IN  IF m[3] # "BAD" /\ m[2].state \notin vis
           THEN BFS_enqueue_unmarked(Tail(moves), Append(q, <<m[2], level + 1>>), vis, level)
           ELSE BFS_enqueue_unmarked(Tail(moves), q, vis, level)

\* A queueing loop that puts the next states at the front of the queue.
RECURSIVE BFS_enqueue_at_front(_, _, _, _)
BFS_enqueue_at_front(moves, q, vis, level) ==
  IF moves = <<>> THEN <<q, vis>>
  ELSE LET m == Head(moves)
       IN  IF m[3] # "BAD" /\ m[2].state \notin vis
           THEN BFS_enqueue_at_front(Tail(moves), <<<<m[2], level + 1>>>> \o q,
                                     vis \cup {m[2].state}, level)
           ELSE BFS_enqueue_at_front(Tail(moves), q, vis, level)

\* The loop "for direction, next_state, quality, _ in possible_moves" that
\* queues the next states: <<queue, visited>> after it.
RECURSIVE BFS_enqueue(_, _, _, _)
BFS_enqueue(moves, q, vis, level) ==
  IF moves = <<>> THEN <<q, vis>>
  ELSE LET m == Head(moves)
       IN  IF m[3] # "BAD" /\ m[2].state \notin vis
           THEN BFS_enqueue(Tail(moves), Append(q, <<m[2], level + 1>>),
                            vis \cup {m[2].state}, level)
           ELSE BFS_enqueue(Tail(moves), q, vis, level)

BFS_unchanged ==
  UNCHANGED <<solver, size, board, blank_pos, optimal_length, open_set, closed_set,
              depth_limit, stack, current_path, solution, total_nodes_visited,
              solvable_calls, dist, aux>>

\* solve, up to the loop: the root is queued at level 0 and marked visited.
BFSSolveBegin ==
  /\ pc = "call"
  /\ solver = "BFS"
  /\ LET initial_state == from_board(board, blank_pos, size)
     IN  /\ queue' = <<<<initial_state, 0>>>>
         /\ visited' = {initial_state.state}
  /\ nodes_visited' = 0
  /\ current_level' = 0
  /\ pc' = "loop"
  /\ UNCHANGED result
  /\ BFS_unchanged

\* One iteration of "while queue".
BFSIteration ==
  /\ pc = "loop"
  /\ solver = "BFS"
  /\ queue # <<>>
  /\ \E current_state \in {Head(queue)[1]} :
     \E level \in {Head(queue)[2]} :
     \E possible_moves \in {BFS_possible_moves(current_state, visited)} :
     \E queued \in {BFS_enqueue(possible_moves, Tail(queue), visited, level)} :
         /\ nodes_visited' = nodes_visited + 1
         /\ current_level' = IF level > current_level THEN level ELSE current_level
         /\ IF is_goal(current_state.state)
            THEN /\ Return(SolutionInfo(PyList(current_state.path), optimal_length, PyNone))
                 /\ queue' = Tail(queue)
                 /\ UNCHANGED visited
            ELSE IF level >= MAX_DEPTH_BFS
            THEN /\ queue' = Tail(queue)
                 /\ UNCHANGED <<visited, result, pc>>
            ELSE /\ queue' = queued[1]
                 /\ visited' = queued[2]
                 /\ UNCHANGED <<result, pc>>
  /\ BFS_unchanged

\* The queue is empty: "return None".
BFSReturnNone ==
  /\ pc = "loop"
  /\ solver = "BFS"
  /\ queue = <<>>
  /\ Return(PyNone)
  /\ UNCHANGED <<queue, visited, nodes_visited, current_level>>
  /\ BFS_unchanged

-----------------------------------------------------------------------------
(* BFSSolver.solve as one step, computed level by level.  The queue holds  *)
(* the entries of a level in the order they were found, and a              *)
(* configuration is queued at most once (it is marked visited when         *)
(* queued), so the order within a level decides only which path stands for *)
(* a configuration, not which configurations are queued, nor their level,  *)
(* nor the visited set.  The path of an entry, whose length is its level,  *)
(* is not kept, and a returned path is known by its length.                *)

PyListOfLength(n) == [tag |-> "list", length |-> n]

\* The next states that the iterations of one level queue: make_move over
\* get_possible_moves, skipping the visited configurations.
BFS_level_children(front, vis, n) ==
  {<<swap(p[1][1], p[1][2], new_pos(p[1][2], n, p[2])), new_pos(p[1][2], n, p[2])>> :
     p \in {q \in front \X Direction :
              /\ new_pos(q[1][2], n, q[2]) # -1
              /\ swap(q[1][1], q[1][2], new_pos(q[1][2], n, q[2])) \notin vis}}

\* A run whose ceiling is a tenth of MAX_DEPTH_BFS.
RECURSIVE BFS_solve_from_ceiling_tenth(_, _, _, _)
BFS_solve_from_ceiling_tenth(front, vis, level, n) ==
  IF front = {} THEN <<-1, level - 1>>
  ELSE IF \E e \in front : is_goal(e[1]) THEN <<level, level>>
  ELSE IF level >= MAX_DEPTH_BFS \div 10 THEN <<-1, level>>
  ELSE LET children == BFS_level_children(front, vis, n)
       IN  BFS_solve_from_ceiling_tenth(children,
                                        {t \in vis \cup {c[1] : c \in children} : TRUE},
                                        level + 1, n)

\* The iterations of "while queue" from the first entry of `level` on, `front`
\* being the (tiles, blank_pos) of the queue's entries: <<the length of the
\* path returned, the level of the last entry dequeued (current_level)>>, the
\* length being -1 when the queue runs empty and solve returns None.  An entry
\* at the ceiling is goal-tested and dropped without queueing its neighbours.
RECURSIVE BFS_solve_from(_, _, _, _)
BFS_solve_from(front, vis, level, n) ==
  IF front = {} THEN <<-1, level - 1>>
  ELSE IF \E e \in front : is_goal(e[1]) THEN <<level, level>>
  ELSE IF level >= MAX_DEPTH_BFS THEN <<-1, level>>
  ELSE LET children == BFS_level_children(front, vis, n)
       IN  BFS_solve_from(children, {t \in vis \cup {c[1] : c \in children} : TRUE},
                          level + 1, n)

\* A run that counts the first entry as level 1.
BFS_solve_length_from_one(tiles, bp, n) == BFS_solve_from({<<tiles, bp>>}, {tiles}, 1, n)

\* <<length returned or -1, current_level at the end>> of solve on a board.
BFS_solve_length(tiles, bp, n) == BFS_solve_from({<<tiles, bp>>}, {tiles}, 0, n)

BFSLevelsSolve ==
  /\ pc = "call"
  /\ solver = "BFS_LEVELS"
  /\ \E run \in {BFS_solve_length(board, blank_pos, size)} :
       /\ current_level' = run[2]
       /\ Return(IF run[1] = -1 THEN PyNone
                 ELSE SolutionInfo(PyListOfLength(run[1]), optimal_length, PyNone))
  /\ UNCHANGED <<solver, size, board, blank_pos, optimal_length, queue, visited,
                 nodes_visited, open_set, closed_set, depth_limit, stack, current_path,
                 solution, total_nodes_visited, solvable_calls, dist, aux>>

\* Two 3 x 3 boards far from the goal: 31 moves away, as far as a board can
\* be, and 30 moves away.
DeepInputs == {<<8, 6, 7, 2, 5, 4, 3, 0, 1>>, <<8, 4, 7, 1, 5, 6, 3, 2, 0>>}

\* Half the levels a 3 x 3 board has, for distances found from both ends.
HalfDepth == 16

\* The distance between the roots of two families of levels: a shortest path
\* of at most 2 * HalfDepth slides has a middle configuration within HalfDepth
\* of both ends.  -1 when the families do not meet.
RefMeet(from_a, from_b) ==
  LET sums == {p[1] + p[2] - 2 :
                 p \in {q \in (1..Len(from_a)) \X (1..Len(from_b)) :
                          from_a[q[1]] \cap from_b[q[2]] # {}}}
  IN  IF sums = {} THEN -1 ELSE CHOOSE d \in sums : \A o \in sums : d <= o

InitBFSLevels ==
  /\ solver = "BFS_LEVELS"
  /\ size \in Sizes
  /\ \E levels \in {RefLevels(Goal(size), size, HalfDepth)} :
       /\ board \in (IF size = 2 THEN AllBoards(2) ELSE Within(levels, MaxDist) \cup DeepInputs)
       /\ \E near \in {RefDist(levels, board)} :
            \E back \in {IF near # -1 THEN <<>> ELSE RefLevels(board, size, HalfDepth)} :
              dist = IF near # -1 THEN near ELSE RefMeet(levels, back)
  /\ blank_pos = Board_blank_pos(board)
  /\ optimal_length = PyNone
  /\ pc = "call"
  /\ result = PyNone
  /\ solvable_calls = 0
  /\ NoSearchState

NextBFSLevels == BFSLevelsSolve

SpecBFSLevels == InitBFSLevels /\ [][NextBFSLevels]_vars

-----------------------------------------------------------------------------
(* AStarSolver.                                                            *)

\* State.from_board of astar.py: h_cost is board.manhattan_distance().
AStar_from_board(tiles, bp, n) ==
  [state |-> tiles, blank_pos |-> bp, size |-> n, path |-> <<>>,
   g_cost |-> 0, h_cost |-> manhattan_distance(tiles, n)]

\* A make_move that hands the parent's g_cost on as it is.
AStar_make_move_same_g(s, direction) ==
  LET np == new_pos(s.blank_pos, s.size, direction)
      new_state == swap(s.state, s.blank_pos, np)
  IN  IF np = -1 THEN PyNone
      ELSE [state |-> new_state,
            blank_pos |-> np,
            size |-> s.size,
            path |-> Append(s.path, direction),
            g_cost |-> s.g_cost,
            h_cost |-> manhattan_distance(new_state, s.size)]

\* State.make_move of astar.py: g_cost is the parent's plus one, h_cost is
\* computed from the new tiles.
AStar_make_move(s, direction) ==
  LET np == new_pos(s.blank_pos, s.size, direction)
      new_state == swap(s.state, s.blank_pos, np)
  IN  IF np = -1 THEN PyNone
      ELSE [state |-> new_state,
            blank_pos |-> np,
            size |-> s.size,
            path |-> Append(s.path, direction),
            g_cost |-> s.g_cost + 1,
            h_cost |-> manhattan_distance(new_state, s.size)]

f_cost(s) == s.g_cost + s.h_cost

\* State.__lt__: lower f_cost first, and among equal f_cost the higher g_cost.
State_lt(a, b) ==
  IF f_cost(a) = f_cost(b) THEN a.g_cost > b.g_cost ELSE f_cost(a) < f_cost(b)

\* heapq._siftdown(heap, startpos, pos), positions 0-based as in heapq.
RECURSIVE siftdown_loop(_, _, _, _)
siftdown_loop(heap, startpos, pos, newitem) ==
  IF pos > startpos
  THEN LET parentpos == (pos - 1) \div 2
           parent == heap[parentpos + 1]
       IN  IF State_lt(newitem, parent)
           THEN siftdown_loop([heap EXCEPT ![pos + 1] = parent], startpos, parentpos, newitem)
           ELSE [heap EXCEPT ![pos + 1] = newitem]
  ELSE [heap EXCEPT ![pos + 1] = newitem]

siftdown(heap, startpos, pos) == siftdown_loop(heap, startpos, pos, heap[pos + 1])

\* heapq._siftup(heap, pos): the smaller child is moved up until a leaf is
\* reached, then the item is sifted down from there.
RECURSIVE siftup_loop(_, _, _, _)
siftup_loop(heap, startpos, pos, newitem) ==
  LET endpos == Len(heap)
      childpos == 2 * pos + 1
      rightpos == childpos + 1
      chosen == IF rightpos < endpos /\ ~State_lt(heap[childpos + 1], heap[rightpos + 1])
                THEN rightpos ELSE childpos
  IN  IF childpos < endpos
      THEN siftup_loop([heap EXCEPT ![pos + 1] = heap[chosen + 1]], startpos, chosen, newitem)
      ELSE siftdown([heap EXCEPT ![pos + 1] = newitem], startpos, pos)

siftup(heap, pos) == siftup_loop(heap, pos, pos, heap[pos + 1])

\* A push that leaves the new item at the end of the list.
heappush_at_end(heap, item) == Append(heap, item)

heappush(heap, item) == siftdown(Append(heap, item), 0, Len(heap))

\* heapq.heappop(heap): <<the item returned, the heap afterwards>>.
heappop(heap) ==
  LET lastelt == heap[Len(heap)]
      rest == SubSeq(heap, 1, Len(heap) - 1)
  IN  IF rest # <<>>
      THEN <<rest[1], siftup([rest EXCEPT ![1] = lastelt], 0)>>
      ELSE <<lastelt, rest>>

\* An evaluate_move that lets a neighbour with a higher f_cost through.
AStar_evaluate_move_admitting_increase(current, next_state, closed) ==
  IF next_state.state \in closed THEN "BAD"
  ELSE IF f_cost(next_state) < f_cost(current) THEN "BEST"
  ELSE "MID"

AStar_evaluate_move(current, next_state, closed) ==
  IF next_state.state \in closed THEN "BAD"
  ELSE IF f_cost(next_state) < f_cost(current) THEN "BEST"
  ELSE IF f_cost(next_state) = f_cost(current) THEN "MID"
  ELSE "BAD"

AStar_possible_moves(current, closed) ==
  LET dirs == get_possible_moves(current.blank_pos, current.size)
      entry(d) == LET nxt == AStar_make_move(current, d)
                  IN  <<d, nxt, AStar_evaluate_move(current, nxt, closed)>>
      ok == {i \in 1..Len(dirs) : AStar_make_move(current, dirs[i]) # PyNone}
      collect[k \in 0..Len(dirs)] ==
        IF k = 0 THEN <<>>
        ELSE IF k \in ok THEN Append(collect[k - 1], entry(dirs[k]))
        ELSE collect[k - 1]
  IN  collect[Len(dirs)]

\* The loop "Generate and explore successors": the heap after it.
RECURSIVE AStar_push_successors(_, _, _)
AStar_push_successors(moves, heap, closed) ==
  IF moves = <<>> THEN heap
  ELSE LET m == Head(moves)
       IN  IF m[3] # "BAD" /\ m[2].state \notin closed
           THEN AStar_push_successors(Tail(moves), heappush(heap, m[2]), closed)
           ELSE AStar_push_successors(Tail(moves), heap, closed)

AStar_unchanged ==
  UNCHANGED <<solver, size, board, blank_pos, optimal_length, queue, visited,
              current_level, depth_limit, stack, current_path, solution,
              total_nodes_visited, solvable_calls, dist, aux>>

AStarSolveBegin ==
  /\ pc = "call"
  /\ solver = "ASTAR"
  /\ open_set' = heappush(<<>>, AStar_from_board(board, blank_pos, size))
  /\ closed_set' = {}
  /\ nodes_visited' = 0
  /\ pc' = "loop"
  /\ UNCHANGED result
  /\ AStar_unchanged

\* An iteration that leaves the closed set as it is.
AStarIteration_without_closing ==
  /\ pc = "loop"
  /\ solver = "ASTAR"
  /\ open_set # <<>>
  /\ \E popped \in {heappop(open_set)} :
     \E current_state \in {popped[1]} :
     \E possible_moves \in {AStar_possible_moves(current_state, closed_set)} :
         /\ nodes_visited' = nodes_visited + 1
         /\ IF current_state.state \in closed_set
            THEN /\ open_set' = popped[2]
                 /\ UNCHANGED <<closed_set, result, pc>>
            ELSE IF is_goal(current_state.state)
            THEN /\ Return(SolutionInfo(PyList(current_state.path), optimal_length, PyNone))
                 /\ open_set' = popped[2]
                 /\ UNCHANGED closed_set
            ELSE /\ open_set' = AStar_push_successors(possible_moves, popped[2], closed_set)
                 /\ UNCHANGED <<closed_set, result, pc>>
  /\ AStar_unchanged

\* One iteration of "while open_set".
AStarIteration ==
  /\ pc = "loop"
  /\ solver = "ASTAR"
  /\ open_set # <<>>
  /\ \E popped \in {heappop(open_set)} :
     \E current_state \in {popped[1]} :
     \E possible_moves \in {AStar_possible_moves(current_state, closed_set)} :
     \E closed \in {closed_set \cup {current_state.state}} :
         /\ nodes_visited' = nodes_visited + 1
         /\ IF current_state.state \in closed_set
            THEN /\ open_set' = popped[2]
                 /\ UNCHANGED <<closed_set, result, pc>>
            ELSE IF is_goal(current_state.state)
            THEN /\ Return(SolutionInfo(PyList(current_state.path), optimal_length, PyNone))
                 /\ open_set' = popped[2]
                 /\ UNCHANGED closed_set
            ELSE /\ closed_set' = closed
                 /\ open_set' = AStar_push_successors(possible_moves, popped[2], closed)
                 /\ UNCHANGED <<result, pc>>
  /\ AStar_unchanged

\* The heap is empty: "return None".
AStarReturnNone ==
  /\ pc = "loop"
  /\ solver = "ASTAR"
  /\ open_set = <<>>
  /\ Return(PyNone)
  /\ UNCHANGED <<open_set, closed_set, nodes_visited>>
  /\ AStar_unchanged

-----------------------------------------------------------------------------
(* DFSSolver.  The recursion of dfs_with_depth_limit is the sequence       *)
(* `stack` of its frames, the root call first: a frame holds the call's    *)
(* state, its moves_to_try and the position idx of the second "for" loop.  *)

SelectSeq2(seq, keep) ==
  LET collect[k \in 0..Len(seq)] ==
        IF k = 0 THEN <<>>
        ELSE IF seq[k] \in keep THEN Append(collect[k - 1], seq[k])
        ELSE collect[k - 1]
  IN  collect[Len(seq)]

SeqToSet(seq) == {seq[i] : i \in 1..Len(seq)}

\* The possible moves in the order get_possible_moves lists them.
get_ordered_moves_unordered(s) == get_possible_moves(s.blank_pos, s.size)

get_ordered_moves(s) ==
  LET priority == <<UP, LEFT, DOWN, RIGHT>>
      possible == get_possible_moves(s.blank_pos, s.size)
  IN  SelectSeq2(priority, SeqToSet(possible))

\* An is_reverse_move that also rejects a second move in the same direction.
is_reverse_move_or_repeat(last_move, new_move) ==
  IF last_move = PyNone THEN FALSE
  ELSE \/ (last_move \in {PyList(<<UP>>), PyList(<<DOWN>>)} /\ new_move \in {UP, DOWN})
       \/ (last_move \in {PyList(<<LEFT>>), PyList(<<RIGHT>>)} /\ new_move \in {LEFT, RIGHT})

\* last_move is PyNone when the path is empty.
is_reverse_move(last_move, new_move) ==
  IF last_move = PyNone THEN FALSE
  ELSE \/ (last_move = PyList(<<UP>>) /\ new_move = DOWN)
       \/ (last_move = PyList(<<DOWN>>) /\ new_move = UP)
       \/ (last_move = PyList(<<LEFT>>) /\ new_move = RIGHT)
       \/ (last_move = PyList(<<RIGHT>>) /\ new_move = LEFT)

\* "state.path[-1] if state.path else None", the move boxed to keep it
\* comparable with PyNone.
last_move_of(s) ==
  IF s.path # <<>> THEN PyList(<<s.path[Len(s.path)]>>) ELSE PyNone

Frame(s) == [state |-> s, entered |-> FALSE, moves_to_try |-> <<>>, idx |-> 1]

Top == stack[Len(stack)]

DFS_unchanged ==
  UNCHANGED <<solver, size, board, blank_pos, optimal_length, queue, current_level,
              open_set, closed_set, dist, aux>>

\* A solve that goes to the depth limits without asking is_solvable.
DFSSolveBegin_unchecked ==
  /\ pc = "call"
  /\ solver = "DFS"
  /\ LET initial_state == from_board(board, blank_pos, size)
     IN  IF is_goal(initial_state.state)
         THEN /\ Return(SolutionInfo(PyEnum("ALREADY_SOLVED"), PyNone, PyNone))
              /\ UNCHANGED <<solvable_calls, total_nodes_visited>>
         ELSE /\ total_nodes_visited' = 0
              /\ pc' = "for"
              /\ UNCHANGED <<result, solvable_calls>>
  /\ UNCHANGED <<visited, nodes_visited, depth_limit, stack, current_path, solution>>
  /\ DFS_unchanged

\* A solve that asks is_solvable before it looks at the root.
DFSSolveBegin_solvable_first ==
  /\ pc = "call"
  /\ solver = "DFS"
  /\ solvable_calls' = solvable_calls + 1
  /\ LET initial_state == from_board(board, blank_pos, size)
     IN  IF ~is_solvable(board, blank_pos, size)
         THEN /\ Return(SolutionInfo(PyEnum("UNSOLVABLE"), PyNone, PyNone))
              /\ UNCHANGED total_nodes_visited
         ELSE IF is_goal(initial_state.state)
         THEN /\ Return(SolutionInfo(PyEnum("ALREADY_SOLVED"), PyNone, PyNone))
              /\ UNCHANGED total_nodes_visited
         ELSE /\ total_nodes_visited' = 0
              /\ pc' = "for"
              /\ UNCHANGED result
  /\ UNCHANGED <<visited, nodes_visited, depth_limit, stack, current_path, solution>>
  /\ DFS_unchanged

\* solve, up to the loop over the depth limits.
DFSSolveBegin ==
  /\ pc = "call"
  /\ solver = "DFS"
  /\ LET initial_state == from_board(board, blank_pos, size)
     IN  IF is_goal(initial_state.state)
         THEN /\ Return(SolutionInfo(PyEnum("ALREADY_SOLVED"), PyNone, PyNone))
              /\ UNCHANGED <<solvable_calls, total_nodes_visited>>
         ELSE /\ solvable_calls' = solvable_calls + 1
              /\ IF ~is_solvable(board, blank_pos, size)
                 THEN /\ Return(SolutionInfo(PyEnum("UNSOLVABLE"), PyNone, PyNone))
                      /\ UNCHANGED total_nodes_visited
                 ELSE /\ total_nodes_visited' = 0
                      /\ pc' = "for"
                      /\ UNCHANGED result
  /\ UNCHANGED <<visited, nodes_visited, depth_limit, stack, current_path, solution>>
  /\ DFS_unchanged

\* A loop over the depth limits that takes the same limit again.
DFSIterationBegin_same_limit ==
  /\ pc = "for"
  /\ solver = "DFS"
  /\ depth_limit < MAX_DEPTH_DFS
  /\ depth_limit' = depth_limit
  /\ visited' = {}
  /\ current_path' = {board}
  /\ nodes_visited' = 0
  /\ stack' = <<Frame(from_board(board, blank_pos, size))>>
  /\ solution' = PyNone
  /\ pc' = "dfs"
  /\ UNCHANGED <<result, total_nodes_visited, solvable_calls>>
  /\ DFS_unchanged

\* "for depth_limit in range(1, self.max_depth + 1)": the next limit, with a
\* fresh visited set and current_path, and the root call of the traversal.
DFSIterationBegin ==
  /\ pc = "for"
  /\ solver = "DFS"
  /\ depth_limit < MAX_DEPTH_DFS
  /\ depth_limit' = depth_limit + 1
  /\ visited' = {}
  /\ current_path' = {board}
  /\ nodes_visited' = 0
  /\ stack' = <<Frame(from_board(board, blank_pos, size))>>
  /\ solution' = PyNone
  /\ pc' = "dfs"
  /\ UNCHANGED <<result, total_nodes_visited, solvable_calls>>
  /\ DFS_unchanged

\* The range of depth limits is exhausted.
DFSReturnNoSolution ==
  /\ pc = "for"
  /\ solver = "DFS"
  /\ depth_limit >= MAX_DEPTH_DFS
  /\ Return(SolutionInfo(PyEnum("NO_SOLUTION"), PyNone, PyNone))
  /\ UNCHANGED <<visited, nodes_visited, depth_limit, stack, current_path, solution,
                 total_nodes_visited, solvable_calls>>
  /\ DFS_unchanged

\* A return of None after which the caller leaves current_path as it is.
DFSReturnNoneToCaller_keeping_path ==
  IF Len(stack) = 1
  THEN /\ stack' = <<>>
       /\ solution' = PyNone
       /\ pc' = "after"
       /\ UNCHANGED current_path
  ELSE LET caller == stack[Len(stack) - 1]
       IN  /\ stack' = Append(SubSeq(stack, 1, Len(stack) - 2),
                              [caller EXCEPT !.idx = caller.idx + 1])
           /\ UNCHANGED <<current_path, solution, pc>>

\* The top call returns None: its caller removes the child's tuple from
\* current_path and goes on with its next move; the root call's None ends the
\* traversal.
DFSReturnNoneToCaller ==
  IF Len(stack) = 1
  THEN /\ stack' = <<>>
       /\ solution' = PyNone
       /\ pc' = "after"
       /\ UNCHANGED current_path
  ELSE LET caller == stack[Len(stack) - 1]
       IN  /\ stack' = Append(SubSeq(stack, 1, Len(stack) - 2),
                              [caller EXCEPT !.idx = caller.idx + 1])
           /\ current_path' = current_path \ {Top.state.state}
           /\ UNCHANGED <<solution, pc>>

\* dfs_with_depth_limit from its entry to the second "for" loop.  A goal state
\* is returned through every caller, each of which returns it at once.
DFSEnter ==
  /\ pc = "dfs"
  /\ solver = "DFS"
  /\ stack # <<>>
  /\ ~Top.entered
  /\ IF is_goal(Top.state.state)
     THEN /\ solution' = Top.state
          /\ stack' = <<>>
          /\ pc' = "after"
          /\ UNCHANGED current_path
     ELSE IF Len(Top.state.path) >= depth_limit
     THEN DFSReturnNoneToCaller
     ELSE /\ stack' = [stack EXCEPT ![Len(stack)] =
                         [@ EXCEPT !.entered = TRUE,
                                   !.moves_to_try = get_ordered_moves(Top.state)]]
          /\ UNCHANGED <<solution, pc, current_path>>
  /\ UNCHANGED <<result, visited, nodes_visited, depth_limit, total_nodes_visited,
                 solvable_calls>>
  /\ DFS_unchanged

\* A pass of the loop that calls for every legal move, the reverse of the
\* last one and the configurations already met included.
DFSTryMove_unpruned ==
  /\ pc = "dfs"
  /\ solver = "DFS"
  /\ stack # <<>>
  /\ Top.entered
  /\ Top.idx <= Len(Top.moves_to_try)
  /\ LET direction == Top.moves_to_try[Top.idx]
         next_state == make_move(Top.state, direction)
         skip == [stack EXCEPT ![Len(stack)] = [@ EXCEPT !.idx = @ + 1]]
     IN  IF next_state = PyNone
         THEN /\ stack' = skip
              /\ UNCHANGED <<visited, current_path, nodes_visited>>
         ELSE /\ nodes_visited' = nodes_visited + 1
              /\ visited' = visited \cup {next_state.state}
              /\ current_path' = current_path \cup {next_state.state}
              /\ stack' = Append(stack, Frame(next_state))
  /\ UNCHANGED <<result, pc, depth_limit, solution, total_nodes_visited, solvable_calls>>
  /\ DFS_unchanged

\* One pass of "for direction in moves_to_try" of the top call.
DFSTryMove ==
  /\ pc = "dfs"
  /\ solver = "DFS"
  /\ stack # <<>>
  /\ Top.entered
  /\ Top.idx <= Len(Top.moves_to_try)
  /\ LET direction == Top.moves_to_try[Top.idx]
         next_state == make_move(Top.state, direction)
         skip == [stack EXCEPT ![Len(stack)] = [@ EXCEPT !.idx = @ + 1]]
     IN  IF is_reverse_move(last_move_of(Top.state), direction)
         THEN /\ stack' = skip
              /\ UNCHANGED <<visited, current_path, nodes_visited>>
         ELSE IF next_state = PyNone
         THEN /\ stack' = skip
              /\ UNCHANGED <<visited, current_path, nodes_visited>>
         ELSE IF next_state.state \in current_path \/ next_state.state \in visited
         THEN /\ stack' = skip
              /\ UNCHANGED <<visited, current_path, nodes_visited>>
         ELSE /\ nodes_visited' = nodes_visited + 1
              /\ visited' = visited \cup {next_state.state}
              /\ current_path' = current_path \cup {next_state.state}
              /\ stack' = Append(stack, Frame(next_state))
  /\ UNCHANGED <<result, pc, depth_limit, solution, total_nodes_visited, solvable_calls>>
  /\ DFS_unchanged

\* The top call has tried all its moves: "return None, nodes_visited".
DFSLeave ==
  /\ pc = "dfs"
  /\ solver = "DFS"
  /\ stack # <<>>
  /\ Top.entered
  /\ Top.idx > Len(Top.moves_to_try)
  /\ DFSReturnNoneToCaller
  /\ UNCHANGED <<result, visited, nodes_visited, depth_limit, total_nodes_visited,
                 solvable_calls>>
  /\ DFS_unchanged

\* solve after the traversal of one depth limit.
DFSIterationEnd ==
  /\ pc = "after"
  /\ solver = "DFS"
  /\ total_nodes_visited' = total_nodes_visited + nodes_visited
  /\ IF solution # PyNone
     THEN Return(SolutionInfo(PyEnum("SOLVED"), PyList(solution.path), optimal_length))
     ELSE /\ pc' = "for"
          /\ UNCHANGED result
  /\ UNCHANGED <<visited, nodes_visited, depth_limit, stack, current_path, solution,
                 solvable_calls>>
  /\ DFS_unchanged

-----------------------------------------------------------------------------

\* 3 x 3 boards further from the goal, given to A* only: the "complex" preset
\* of main.py, and boards on which the open set grows to 4 and to 6 entries.
AStarInputs ==
  {<<7, 2, 4, 5, 0, 6, 8, 3, 1>>,
   <<2, 0, 5, 1, 3, 4, 7, 8, 6>>,
   <<1, 2, 3, 8, 0, 7, 4, 6, 5>>,
   <<1, 2, 3, 8, 7, 4, 6, 0, 5>>}

InitAStarFar ==
  /\ solver = "ASTAR"
  /\ size = 3
  /\ \E levels \in {RefLevels(Goal(size), size, HalfDepth)} :
       /\ board \in AStarInputs
       /\ \E back \in {RefLevels(board, size, HalfDepth)} : dist = RefMeet(levels, back)
  /\ blank_pos = Board_blank_pos(board)
  /\ optimal_length \in OptimalLengths
  /\ pc = "call"
  /\ result = PyNone
  /\ solvable_calls = 0
  /\ NoSearchState

\* A breadth-first search from a 3 x 3 board that cannot reach the goal dequeues
\* every one of the 181440 configurations of its component up to level
\* MAX_DEPTH_BFS: those runs are left to SpecBFSLevels.
Init ==
  \/ \E s \in {"DFS", "BFS", "ASTAR"} :
       /\ InitSearch(s)
       /\ (s = "BFS" /\ size = 3) => dist >= 0
  \/ InitAStarFar

Next ==
  \/ DFSSolveBegin
  \/ DFSIterationBegin
  \/ DFSReturnNoSolution
  \/ DFSEnter
  \/ DFSTryMove
  \/ DFSLeave
  \/ DFSIterationEnd
  \/ BFSSolveBegin
  \/ BFSIteration
  \/ BFSReturnNone
  \/ AStarSolveBegin
  \/ AStarIteration
  \/ AStarReturnNone

Spec == Init /\ [][Next]_vars

-----------------------------------------------------------------------------
(* What a finished run returned.                                           *)

Done == pc = "done"

\* The result carries a list of directions: in its moves field, or in its
\* status field, where a SolutionInfo built positionally from (path,
\* optimal_length) holds the path.
HasMoveList(r) ==
  /\ r.tag = "SolutionInfo"
  /\ (r.moves.tag = "list" \/ r.status.tag = "list")

MoveListOf(r) == IF r.moves.tag = "list" THEN r.moves.items ELSE r.status.items

\* The moves applied in order with make_move; PyNone once a move is illegal.
RECURSIVE Replay(_, _)
Replay(s, moves) ==
  IF moves = <<>> THEN s
  ELSE LET nxt == make_move(s, Head(moves))
       IN  IF nxt = PyNone THEN PyNone ELSE Replay(nxt, Tail(moves))

\* C1: whenever solve returns a move list, applying the moves in order with
\* make_move from the initial configuration succeeds at every step and ends
\* in the goal configuration.
C1_RoundTrip ==
  (Done /\ HasMoveList(result)) =>
    LET final == Replay(from_board(board, blank_pos, size), MoveListOf(result))
    IN  /\ final # PyNone
        /\ final.state = Goal(size)

C1_Witness ==
  /\ Done
  /\ solver = "DFS"
  /\ HasMoveList(result)
  /\ Len(MoveListOf(result)) >= 5

\* C3: for every configuration that can reach the goal, A* returns a move
\* sequence whose length is the least number of moves to the goal.
C3_AStarOptimal ==
  (Done /\ solver = "ASTAR" /\ dist >= 0) =>
    /\ HasMoveList(result)
    /\ Len(MoveListOf(result)) = dist

\* C7: for the preset [[1,2,3],[4,0,6],[7,5,8]] every strategy returns a
\* solution of exactly one move.
C7_ScenarioAOneMove ==
  (Done /\ size = 3 /\ board = <<1, 2, 3, 4, 0, 6, 7, 5, 8>>) =>
    /\ HasMoveList(result)
    /\ Len(MoveListOf(result)) = 1

\* C8: when the initial configuration is the goal, every strategy returns a
\* result whose status is ALREADY_SOLVED and whose move list is empty.
C8_AlreadySolved ==
  (Done /\ board = Goal(size)) =>
    /\ result.tag = "SolutionInfo"
    /\ result.status = PyEnum("ALREADY_SOLVED")
    /\ result.moves \in {PyNone, PyList(<<>>)}

\* C9: for a non-goal configuration that is_solvable rejects, DFS evaluates
\* is_solvable once and returns UNSOLVABLE without starting a depth-limit
\* iteration and without expanding a node.
C9_EagerUnsolvable ==
  (Done /\ solver = "DFS" /\ ~is_goal(board) /\ ~is_solvable(board, blank_pos, size)) =>
    /\ result.tag = "SolutionInfo"
    /\ result.status = PyEnum("UNSOLVABLE")
    /\ solvable_calls = 1
    /\ depth_limit = 0
    /\ nodes_visited = 0
    /\ total_nodes_visited = 0
    /\ visited = {}
    /\ stack = <<>>

C9_Witness ==
  /\ Done
  /\ solver = "DFS"
  /\ board = <<1, 2, 3, 4, 5, 6, 8, 7, 0>>
  /\ result.status = PyEnum("UNSOLVABLE")
  /\ solvable_calls = 1

\* C10: solve returns a Solution Result whose status is one of the four
\* statuses, and when the goal was reached from a non-goal root the status is
\* SOLVED and the moves field holds the list of directions found.
C10_ResultShape ==
  Done =>
    /\ result.tag = "SolutionInfo"
    /\ result.status.tag = "SolutionStatus"
    /\ result.status.name \in SolutionStatus
    /\ (result.status.name = "SOLVED" => result.moves.tag = "list")
    /\ (HasMoveList(result) /\ board # Goal(size)) =>
         (result.status = PyEnum("SOLVED") /\ result.moves.tag = "list")

\* The number of moves of the list a result carries, -1 when it carries none.
ReturnedLength(r) ==
  IF ~HasMoveList(r) THEN -1
  ELSE LET moves == IF r.moves.tag = "list" THEN r.moves ELSE r.status
       IN  IF "length" \in DOMAIN moves THEN moves.length ELSE Len(moves.items)

\* C2 as stated: for every configuration of a 2 x 2 or 3 x 3 board that can
\* reach the goal, BFS returns a move sequence whose length is the least
\* number of moves to the goal.
C2_BFSOptimal ==
  (Done /\ solver = "BFS_LEVELS" /\ dist >= 0) => ReturnedLength(result) = dist

\* C2 amended: BFS returns a move sequence of the least length for every
\* configuration at most MAX_DEPTH_BFS moves from the goal, and no move
\* sequence for a configuration further from it.
C2_BFSOptimalWithinCeiling ==
  (Done /\ solver = "BFS_LEVELS" /\ dist >= 0) =>
    ReturnedLength(result) = (IF dist <= MAX_DEPTH_BFS THEN dist ELSE -1)

C2_Witness ==
  /\ Done
  /\ solver = "BFS_LEVELS"
  /\ size = 3
  /\ dist = MAX_DEPTH_BFS
  /\ ReturnedLength(result) = MAX_DEPTH_BFS

\* C4: for every 3 x 3 configuration whose shortest solution has 5 or more
\* moves, BFS and A* both return a move sequence, and the two have the same
\* length.
C4_BFSAStarAgree ==
  (Done /\ solver = "ASTAR" /\ size = 3 /\ dist >= 5) =>
    /\ ReturnedLength(result) # -1
    /\ BFS_solve_length(board, blank_pos, size)[1] # -1
    /\ ReturnedLength(result) = BFS_solve_length(board, blank_pos, size)[1]

-----------------------------------------------------------------------------
\* The search ended without reaching the goal: DFS after the last depth
\* limit, BFS with the queue drained, A* with the open set emptied.
Exhausted ==
  /\ Done
  /\ \/ solver = "DFS" /\ depth_limit = MAX_DEPTH_DFS /\ solution = PyNone
     \/ solver = "BFS" /\ queue = <<>> /\ ~HasMoveList(result)
     \/ solver = "ASTAR" /\ open_set = <<>> /\ ~HasMoveList(result)

\* C11: when the search ends without reaching the goal, solve returns a
\* Solution Result with status NO_SOLUTION.
C11_ExhaustionNoSolution ==
  Exhausted =>
    /\ result.tag = "SolutionInfo"
    /\ result.status = PyEnum("NO_SOLUTION")

-----------------------------------------------------------------------------
(* SpecMoves: make_move called again and again, in any direction, on a     *)
(* Board (which it changes in place) or on a search State (which it leaves *)
(* alone, returning a new State that the next call is made on).            *)

\* Board.make_move: the Board after the call and the value returned.  An
\* illegal direction returns False before anything is written.
Board_make_move(tiles, bp, n, direction) ==
  LET np == new_pos(bp, n, direction)
  IN  IF np = -1
      THEN [state |-> tiles, blank_pos |-> bp, returned |-> PyBool(FALSE)]
      ELSE [state |-> swap(tiles, bp, np), blank_pos |-> np, returned |-> PyBool(TRUE)]

\* The longest path of a State that make_move is still called on.
MaxPathLen == 4

MoveReceivers == {"Board", "State", "AStar.State"}

InitMoves ==
  /\ solver \in MoveReceivers
  /\ size \in Sizes
  /\ \E levels \in {RefLevels(Goal(size), size, IF size = 2 THEN FullDepth ELSE MaxDist)} :
       /\ board \in (IF solver = "Board" /\ size = 3
                     THEN {Goal(size), ExchangeTiles(Goal(size), 7, 8)}
                     ELSE Inputs(levels, size))
       /\ dist = RefDist(levels, board)
  /\ blank_pos = Board_blank_pos(board)
  /\ optimal_length = PyNone
  /\ pc = "call"
  /\ result = PyNone
  /\ solvable_calls = 0
  /\ NoSearchState

Moves_unchanged ==
  UNCHANGED <<solver, size, optimal_length, pc, queue, visited, nodes_visited,
              current_level, open_set, closed_set, depth_limit, stack, current_path,
              solution, total_nodes_visited, solvable_calls, dist, first_result>>

\* board.make_move(direction)
BoardMakeMove ==
  /\ solver = "Board"
  /\ \E direction \in Direction :
       LET after == Board_make_move(board, blank_pos, size, direction)
       IN  /\ board' = after.state
           /\ blank_pos' = after.blank_pos
           /\ result' = after.returned
           /\ call' = [direction |-> direction,
                       before |-> [state |-> board, blank_pos |-> blank_pos],
                       returned |-> after.returned]
  /\ UNCHANGED state_obj
  /\ Moves_unchanged

\* State.from_board(board)
StateFromBoard ==
  /\ solver \in {"State", "AStar.State"}
  /\ state_obj = PyNone
  /\ state_obj' = IF solver = "State" THEN from_board(board, blank_pos, size)
                  ELSE AStar_from_board(board, blank_pos, size)
  /\ UNCHANGED <<board, blank_pos, result, call>>
  /\ Moves_unchanged

\* next_state = state.make_move(direction); the next call is made on
\* next_state when there is one.
StateMakeMove ==
  /\ solver \in {"State", "AStar.State"}
  /\ state_obj # PyNone
  /\ Len(state_obj.path) < MaxPathLen
  /\ \E direction \in Direction :
       LET next_state == IF solver = "State" THEN make_move(state_obj, direction)
                         ELSE AStar_make_move(state_obj, direction)
       IN  /\ result' = next_state
           /\ call' = [direction |-> direction,
                       before |-> state_obj,
                       returned |-> next_state]
           /\ state_obj' = IF next_state = PyNone THEN state_obj ELSE next_state
  /\ UNCHANGED <<board, blank_pos>>
  /\ Moves_unchanged

NextMoves ==
  \/ BoardMakeMove
  \/ StateFromBoard
  \/ StateMakeMove

SpecMoves == InitMoves /\ [][NextMoves]_vars

\* The direction is one that get_possible_moves lists for the receiver.
IsPossibleMove(bp, n, direction) == direction \in SeqToSet(get_possible_moves(bp, n))

\* C12: make_move(d) succeeds exactly when d is in get_possible_moves(); for
\* any other d it returns False (Board) or None (State) and the tiles and
\* blank position of the receiver are as before the call.
C12_LegalMovesVersusMakeMove ==
  (call # PyNone) =>
    LET legal == IsPossibleMove(call.before.blank_pos, size, call.direction)
    IN  IF solver = "Board"
        THEN /\ call.returned = PyBool(legal)
             /\ ~legal => (board = call.before.state /\ blank_pos = call.before.blank_pos)
        ELSE /\ (call.returned # PyNone) <=> legal
             /\ ~legal => (/\ state_obj.state = call.before.state
                           /\ state_obj.blank_pos = call.before.blank_pos)

C12_Witness ==
  /\ solver = "Board"
  /\ size = 3
  /\ call # PyNone
  /\ call.returned = PyBool(FALSE)
  /\ board # Goal(size)
  /\ board = call.before.state

IsPermutation(tiles, n) ==
  /\ Len(tiles) = n * n
  /\ {tiles[i] : i \in 1..Len(tiles)} = 0..(n * n - 1)

\* C16: after any sequence of make_move calls, legal or not, on a Board or
\* on a search State, the tiles are a permutation of 0..N*N-1 and the value
\* at index blank_pos is 0.
C16_BlankPositionInvariant ==
  /\ (solver = "Board") =>
       /\ IsPermutation(board, size)
       /\ board[blank_pos + 1] = 0
  /\ (solver \in {"State", "AStar.State"} /\ state_obj # PyNone) =>
       /\ IsPermutation(state_obj.state, state_obj.size)
       /\ state_obj.state[state_obj.blank_pos + 1] = 0

C16_Witness ==
  /\ solver = "AStar.State"
  /\ state_obj # PyNone
  /\ Len(state_obj.path) >= 2
  /\ call.returned = PyNone

-----------------------------------------------------------------------------
(* SpecHeuristic: manhattan_distance on every configuration that can reach *)
(* the goal, and on the configuration one make_move away from it.          *)

InitHeuristic ==
  /\ solver = "manhattan_distance"
  /\ size \in Sizes
  /\ \E levels \in {RefLevels(Goal(size), size, FullDepth)} :
       \E k \in 1..Len(levels) :
         /\ board \in levels[k]
         /\ dist = k - 1
  /\ blank_pos = Board_blank_pos(board)
  /\ optimal_length = PyNone
  /\ pc = "call"
  /\ result = PyNone
  /\ solvable_calls = 0
  /\ NoSearchState

\* State.from_board(board), whose h_cost is board.manhattan_distance(), then
\* make_move in a legal direction, whose h_cost is manhattan_distance() of
\* the new State.
HeuristicAlongMove ==
  /\ solver = "manhattan_distance"
  /\ pc = "call"
  /\ \E direction \in SeqToSet(get_possible_moves(blank_pos, size)) :
       LET from == AStar_from_board(board, blank_pos, size)
       IN  /\ state_obj' = from
           /\ result' = AStar_make_move(from, direction)
  /\ pc' = "done"
  /\ UNCHANGED <<solver, size, board, blank_pos, optimal_length, queue, visited,
                 nodes_visited, current_level, open_set, closed_set, depth_limit,
                 stack, current_path, solution, total_nodes_visited, solvable_calls,
                 dist, call, first_result>>

NextHeuristic == HeuristicAlongMove

SpecHeuristic == InitHeuristic /\ [][NextHeuristic]_vars

\* C13: for every configuration that can reach the goal, manhattan_distance
\* is at most the least number of moves to the goal, it is 0 on the goal, and
\* a legal move lowers it by at most 1.
C13_HeuristicAdmissibleConsistent ==
  (solver = "manhattan_distance") =>
    /\ manhattan_distance(board, size) <= dist
    /\ (board = Goal(size)) => (manhattan_distance(board, size) = 0)
    /\ (pc = "done") => (state_obj.h_cost - result.h_cost <= 1)

C13_Witness ==
  /\ solver = "manhattan_distance"
  /\ pc = "done"
  /\ size = 3
  /\ dist >= 20
  /\ manhattan_distance(board, size) >= 12
  /\ state_obj.h_cost - result.h_cost = 1

-----------------------------------------------------------------------------
(* SpecPair: solve() on a board, then solve() again on the same board with *)
(* another optimal_length.  Everything a search keeps is local to solve(), *)
(* so the second run starts from the same state as the first.              *)

SolveAgain ==
  /\ pc = "done"
  /\ first_result = Unset
  /\ first_result' = result
  /\ \E other \in OptimalLengths \ {optimal_length} : optimal_length' = other
  /\ pc' = "call"
  /\ result' = PyNone
  /\ solvable_calls' = 0
  /\ queue' = <<>>
  /\ visited' = {}
  /\ nodes_visited' = 0
  /\ current_level' = 0
  /\ open_set' = <<>>
  /\ closed_set' = {}
  /\ depth_limit' = 0
  /\ stack' = <<>>
  /\ current_path' = {}
  /\ solution' = PyNone
  /\ total_nodes_visited' = 0
  /\ UNCHANGED <<solver, size, board, blank_pos, dist, state_obj, call>>

NextPair ==
  \/ Next
  \/ SolveAgain

SpecPair == Init /\ [][NextPair]_vars

\* C14: solve with two different optimal_length values returns results with
\* the same status and the same moves.
C14_OptimalLengthNotConsulted ==
  (Done /\ first_result # Unset) =>
    IF first_result.tag = "SolutionInfo" /\ result.tag = "SolutionInfo"
    THEN /\ result.status = first_result.status
         /\ result.moves = first_result.moves
    ELSE result = first_result

-----------------------------------------------------------------------------
\* The __eq__ that @dataclass writes for the State of dfs.py and bfs.py: the
\* fields compared in order, path included.
State_eq(a, b) ==
  /\ a.state = b.state
  /\ a.blank_pos = b.blank_pos
  /\ a.size = b.size
  /\ a.path = b.path

\* The same for the State of astar.py, which also has g_cost and h_cost.
AStar_State_eq(a, b) ==
  /\ State_eq(a, b)
  /\ a.g_cost = b.g_cost
  /\ a.h_cost = b.h_cost

\* tuple(state.state), the key of the visited and closed sets.
visited_key(s) == s.state

\* C15: two States with the same tiles and different paths compare equal and
\* have the same visited / closed key.  The second State is the one
\* from_board makes of a Board with the tiles of the first.
C15_PathIndependentIdentity ==
  (solver \in {"State", "AStar.State"} /\ state_obj # PyNone /\ state_obj.path # <<>>) =>
    LET fresh == IF solver = "State"
                 THEN from_board(state_obj.state, state_obj.blank_pos, state_obj.size)
                 ELSE AStar_from_board(state_obj.state, state_obj.blank_pos, state_obj.size)
    IN  /\ visited_key(state_obj) = visited_key(fresh)
        /\ IF solver = "State" THEN State_eq(state_obj, fresh)
           ELSE AStar_State_eq(state_obj, fresh)

-----------------------------------------------------------------------------
\* The configuration one legal move in `direction` away from `tiles`.
Neighbour(tiles, n, direction) ==
  LET bp == Board_blank_pos(tiles)
  IN  swap(tiles, bp, new_pos(bp, n, direction))

\* C17: expanding a state pushes every legal neighbour that is not closed,
\* whatever its f.  A pushed entry leaves the open set only by being popped,
\* and a popped entry is closed already, or is the goal and ends the run, or
\* is closed then; so while the loop runs every legal neighbour of a closed
\* configuration is closed or in the open set.
C17_AStarPushesEveryNeighbour ==
  (solver = "ASTAR" /\ pc = "loop") =>
    \A c \in closed_set :
      \A direction \in SeqToSet(get_possible_moves(Board_blank_pos(c), size)) :
        \/ Neighbour(c, size, direction) \in closed_set
        \/ \E i \in 1..Len(open_set) : open_set[i].state = Neighbour(c, size, direction)

-----------------------------------------------------------------------------
\* The entry the next heappop returns: heap[0].
NextPopped == open_set[1]

\* The least number of moves from `from` to `to`, searched up to `depth`
\* moves; -1 when `to` is further away.
RefDistBetween(from, to, n, depth) == RefDist(RefLevels(from, n, depth), to)

\* C18: each time an entry is popped whose configuration is not closed, its
\* g_cost is the least number of moves from the initial configuration to
\* that configuration.
C18_AStarFirstPopMinimal ==
  (solver = "ASTAR" /\ pc = "loop" /\ open_set # <<>>
     /\ NextPopped.state \notin closed_set) =>
    NextPopped.g_cost = RefDistBetween(board, NextPopped.state, size, NextPopped.g_cost)

C18_Witness ==
  /\ solver = "ASTAR"
  /\ pc = "loop"
  /\ open_set # <<>>
  /\ size = 3
  /\ NextPopped.state \notin closed_set
  /\ NextPopped.g_cost >= 4
  /\ Len(open_set) >= 2

-----------------------------------------------------------------------------
\* C19: the entry popped has the least f_cost of the entries in the open
\* set, and among the entries with that f_cost the greatest g_cost.
C19_AStarPopOrder ==
  (solver = "ASTAR" /\ pc = "loop" /\ open_set # <<>>) =>
    \A i \in 1..Len(open_set) :
      /\ f_cost(NextPopped) <= f_cost(open_set[i])
      /\ (f_cost(open_set[i]) = f_cost(NextPopped)) =>
           (open_set[i].g_cost <= NextPopped.g_cost)

C19_Witness ==
  /\ solver = "ASTAR"
  /\ pc = "loop"
  /\ Len(open_set) >= 5
  /\ \E i \in 1..Len(open_set) : open_set[i].g_cost < NextPopped.g_cost

-----------------------------------------------------------------------------
\* C20: in a run of AStarSolver.solve the closed set only grows; an iteration
\* that pops an entry whose configuration is closed changes nothing but the
\* heap, which loses that entry, and the count of nodes: no return, no push;
\* an iteration that pops an entry that is neither closed nor the goal adds
\* exactly that configuration to the closed set, so that no configuration is
\* expanded twice.
C20_AStarClosedSet ==
  [][(solver = "ASTAR" /\ pc = "loop" /\ open_set # <<>>) =>
       /\ closed_set \subseteq closed_set'
       /\ (NextPopped.state \in closed_set) =>
            /\ closed_set' = closed_set
            /\ result' = result
            /\ pc' = pc
            /\ open_set' = heappop(open_set)[2]
       /\ (NextPopped.state \notin closed_set /\ ~is_goal(NextPopped.state)) =>
            /\ closed_set' = closed_set \cup {NextPopped.state}
            /\ \A i \in 1..Len(open_set') : open_set'[i].state \notin closed_set'
       /\ (closed_set' # closed_set) => (NextPopped.state \notin closed_set)]_vars

C20_Witness ==
  /\ solver = "ASTAR"
  /\ pc = "loop"
  /\ Cardinality(closed_set) >= 5
  /\ nodes_visited = Cardinality(closed_set)
  /\ open_set # <<>>
  /\ NextPopped.state \notin closed_set
  /\ ~is_goal(NextPopped.state)

-----------------------------------------------------------------------------
\* The configurations of the entries of the queue of BFSSolver.solve.
QueuedConfigurations == {queue[i][1].state : i \in 1..Len(queue)}

\* C21: while BFSSolver.solve runs, the configurations of the queued entries
\* are pairwise distinct and all in the visited set, and the visited set
\* holds exactly one configuration for every entry queued so far (the ones
\* dequeued, counted by nodes_visited, and the ones still queued): each is
\* marked when it is queued, and none is queued twice.
C21_BFSEnqueueMarksVisited ==
  (solver = "BFS" /\ pc \in {"loop", "done"}) =>
    /\ \A i, j \in 1..Len(queue) : (queue[i][1].state = queue[j][1].state) => (i = j)
    /\ QueuedConfigurations \subseteq visited
    /\ Cardinality(visited) = nodes_visited + Len(queue)

C21_Witness ==
  /\ solver = "BFS"
  /\ pc = "loop"
  /\ size = 3
  /\ Len(queue) >= 3
  /\ nodes_visited >= 4
  /\ \E direction \in SeqToSet(get_possible_moves(Head(queue)[1].blank_pos, size)) :
       make_move(Head(queue)[1], direction).state \in QueuedConfigurations

-----------------------------------------------------------------------------
\* C22: in BFSSolver.solve the queue holds its entries in non-decreasing
\* order of level, none below the level of the entries dequeued so far
\* (current_level), so the levels of the entries dequeued never decrease; the
\* level of a queued entry is the length of its path; and the entry whose
\* goal test ends the run, the first dequeued entry that is the goal, is at
\* the level that is the least number of moves from the root to the goal.
C22_BFSLevelOrder ==
  (solver = "BFS") =>
    /\ \A i, j \in 1..Len(queue) : (i <= j) => (queue[i][2] <= queue[j][2])
    /\ \A i \in 1..Len(queue) :
         /\ queue[i][2] >= current_level
         /\ queue[i][2] = Len(queue[i][1].path)
    /\ (pc = "done" /\ result # PyNone) =>
         /\ current_level = dist
         /\ ReturnedLength(result) = dist

C22_Witness ==
  /\ solver = "BFS"
  /\ pc = "done"
  /\ size = 3
  /\ result # PyNone
  /\ current_level = 5
  /\ \E i, j \in 1..Len(queue) : queue[i][2] < queue[j][2]

-----------------------------------------------------------------------------
\* C23: when BFSSolver.solve has returned, no entry of a level above
\* MAX_DEPTH_BFS was ever dequeued; from a board further than MAX_DEPTH_BFS
\* moves from the goal the entries of level MAX_DEPTH_BFS were the last ones
\* dequeued, none of level MAX_DEPTH_BFS + 1 having been queued, and no move
\* list is returned although the goal can be reached; from a board exactly
\* MAX_DEPTH_BFS moves away the goal test of the entries at the ceiling gives
\* the list of MAX_DEPTH_BFS moves.
C23_BFSDepthCeiling ==
  (Done /\ solver = "BFS_LEVELS") =>
    /\ current_level <= MAX_DEPTH_BFS
    /\ ReturnedLength(result) <= MAX_DEPTH_BFS
    /\ (dist > MAX_DEPTH_BFS) => (result = PyNone /\ current_level = MAX_DEPTH_BFS)
    /\ (dist >= 0 /\ dist <= MAX_DEPTH_BFS) =>
         (ReturnedLength(result) = dist /\ current_level = dist)

C23_Witness ==
  /\ Done
  /\ solver = "BFS_LEVELS"
  /\ size = 3
  /\ dist = MAX_DEPTH_BFS + 1
  /\ result = PyNone
  /\ current_level = MAX_DEPTH_BFS

-----------------------------------------------------------------------------
\* C24: DFSSolver.solve on a root that is the goal returns ALREADY_SOLVED
\* with is_solvable never called and no depth limit tried, also where
\* is_solvable would have answered false.
C24_DFSGoalBeforeSolvable ==
  (solver = "DFS" /\ is_goal(board)) =>
    /\ solvable_calls = 0
    /\ depth_limit = 0 /\ stack = <<>> /\ visited = {} /\ nodes_visited = 0
    /\ pc \in {"call", "done"}
    /\ Done => (result = SolutionInfo(PyEnum("ALREADY_SOLVED"), PyNone, PyNone))

C24_Witness ==
  /\ solver = "DFS"
  /\ Done
  /\ is_goal(board)
  /\ ~is_solvable(board, blank_pos, size)
  /\ result.status = PyEnum("ALREADY_SOLVED")
  /\ solvable_calls = 0

-----------------------------------------------------------------------------
\* The configurations of the calls of dfs_with_depth_limit that are active,
\* the root call first.
ActiveBranch == {stack[i].state.state : i \in 1..Len(stack)}

\* C25: a depth-limit iteration of DFSSolver.solve starts with visited empty
\* and current_path holding the root alone; during the traversal current_path
\* is the set of the configurations of the active calls, which are distinct;
\* visited only grows, holds every configuration of the branch but the root,
\* and keeps a configuration whose call returns None and which leaves
\* current_path; a call is made only for a configuration that is neither in
\* current_path nor in visited.
C25_DFSTrackingSets ==
  [][(solver = "DFS") =>
       /\ (pc # "dfs" /\ pc' = "dfs") =>
            (visited' = {} /\ current_path' = {board} /\ ActiveBranch' = {board})
       /\ (pc = "dfs") =>
            /\ current_path = ActiveBranch
            /\ Cardinality(current_path) = Len(stack)
            /\ stack[1].state.state = board
            /\ (current_path \ {board}) \subseteq visited
            /\ board \notin visited
            /\ nodes_visited = Cardinality(visited)
            /\ visited \subseteq visited'
       /\ (pc = "dfs" /\ pc' = "dfs" /\ Len(stack') > Len(stack)) =>
            LET called == stack'[Len(stack')].state.state
            IN  /\ called \notin current_path
                /\ called \notin visited
                /\ visited' = visited \cup {called}
                /\ current_path' = current_path \cup {called}
       /\ (pc = "dfs" /\ pc' = "dfs" /\ Len(stack') < Len(stack)) =>
            /\ current_path' = current_path \ {Top.state.state}
            /\ Top.state.state \in visited']_vars

C25_Witness ==
  /\ solver = "DFS"
  /\ pc = "dfs"
  /\ size = 3
  /\ depth_limit >= 3
  /\ Len(stack) >= 3
  /\ Cardinality(visited \ current_path) >= 2
  /\ Top.entered
  /\ Top.idx <= Len(Top.moves_to_try)
  /\ make_move(Top.state, Top.moves_to_try[Top.idx]) # PyNone
  /\ make_move(Top.state, Top.moves_to_try[Top.idx]).state \in visited \ current_path

-----------------------------------------------------------------------------
\* No move of the list is followed at once by its opposite.
NoImmediateReversal(moves) ==
  \A k \in 1..(Len(moves) - 1) : ~is_reverse_move(PyList(<<moves[k]>>), moves[k + 1])

\* The configurations a move list goes through from a state, that state's
\* first; the list is legal from there.
ConfigurationsAlong(s, moves) ==
  [k \in 1..(Len(moves) + 1) |-> Replay(s, SubSeq(moves, 1, k - 1)).state]

\* C26: the path of every active call of dfs_with_depth_limit has no move
\* followed at once by its opposite, and neither has a move list returned by
\* DFSSolver.solve, which goes through no configuration twice.
C26_DFSNoReverseMove ==
  (solver = "DFS") =>
    /\ \A i \in 1..Len(stack) : NoImmediateReversal(stack[i].state.path)
    /\ (Done /\ HasMoveList(result)) =>
         LET moves == MoveListOf(result)
             along == ConfigurationsAlong(from_board(board, blank_pos, size), moves)
         IN  /\ NoImmediateReversal(moves)
             /\ \A j, k \in 1..Len(along) : (along[j] = along[k]) => (j = k)

C26_Witness ==
  /\ solver = "DFS"
  /\ pc = "dfs"
  /\ size = 3
  /\ Len(stack) >= 4
  /\ Top.entered
  /\ Top.idx <= Len(Top.moves_to_try)
  /\ is_reverse_move(last_move_of(Top.state), Top.moves_to_try[Top.idx])

-----------------------------------------------------------------------------
(* SpecPruned: from every configuration that can reach the goal, a walk    *)
(* towards the goal that obeys the pruning of dfs_with_depth_limit: at     *)
(* each state it takes the first direction of get_ordered_moves that is    *)
(* not the reverse of the last move and whose make_move is one move closer *)
(* to the goal.  The walk found is then replayed from the board.           *)

\* The state the walk ends in, its path being the moves taken; PyNone when
\* at some state no direction is left.  s is in levels[k], k - 1 moves from
\* the goal.
RECURSIVE PrunedDescent(_, _, _)
PrunedDescent(levels, s, k) ==
  IF k = 1 THEN s
  ELSE LET moves_to_try == get_ordered_moves(s)
           closer == {i \in 1..Len(moves_to_try) :
                        /\ ~is_reverse_move(last_move_of(s), moves_to_try[i])
                        /\ make_move(s, moves_to_try[i]).state \in levels[k - 1]}
       IN  IF closer = {} THEN PyNone
           ELSE PrunedDescent(levels,
                              make_move(s, moves_to_try[CHOOSE i \in closer :
                                                          \A j \in closer : i <= j]),
                              k - 1)

\* The boards walked from: every 2 x 2 board that can reach the goal, and the
\* 3 x 3 boards at most MaxPrunedDist moves from the goal or at least
\* MinFarDist moves from it (the farthest are 31 moves away).
MaxPrunedDist == 16
MinFarDist == 30

InitPruned ==
  /\ solver = "pruned_walk"
  /\ size \in Sizes
  /\ \E levels \in {RefLevels(Goal(size), size, FullDepth)} :
       \E k \in {j \in 1..Len(levels) : j - 1 <= MaxPrunedDist \/ j - 1 >= MinFarDist} :
         /\ board \in levels[k]
         /\ dist = k - 1
         /\ state_obj = PrunedDescent(levels, from_board(board, Board_blank_pos(board), size), k)
  /\ blank_pos = Board_blank_pos(board)
  /\ optimal_length = PyNone
  /\ pc = "call"
  /\ result = PyNone
  /\ solvable_calls = 0
  /\ queue = <<>>
  /\ visited = {}
  /\ nodes_visited = 0
  /\ current_level = 0
  /\ open_set = <<>>
  /\ closed_set = {}
  /\ depth_limit = 0
  /\ stack = <<>>
  /\ current_path = {}
  /\ solution = PyNone
  /\ total_nodes_visited = 0
  /\ call = PyNone
  /\ first_result = Unset

\* The moves of the walk applied to the board with make_move.
PrunedReplay ==
  /\ solver = "pruned_walk"
  /\ pc = "call"
  /\ state_obj # PyNone
  /\ result' = Replay(from_board(board, blank_pos, size), state_obj.path)
  /\ pc' = "done"
  /\ UNCHANGED <<solver, size, board, blank_pos, optimal_length, queue, visited,
                 nodes_visited, current_level, open_set, closed_set, depth_limit,
                 stack, current_path, solution, total_nodes_visited, solvable_calls,
                 dist, aux>>

NextPruned == PrunedReplay

SpecPruned == InitPruned /\ [][NextPruned]_vars

\* C27: every configuration of a 2 x 2 or 3 x 3 board that can reach the goal
\* has a move sequence to the goal of the least length in which no move is
\* followed at once by its opposite.
C27_PruningKeepsShortest ==
  (solver = "pruned_walk") =>
    /\ state_obj # PyNone
    /\ Len(state_obj.path) = dist
    /\ NoImmediateReversal(state_obj.path)
    /\ Done => (result # PyNone /\ result.state = Goal(size))

C27_Witness ==
  /\ solver = "pruned_walk"
  /\ Done
  /\ size = 3
  /\ dist = 31
  /\ Len(state_obj.path) = 31
  /\ result.state = Goal(size)

-----------------------------------------------------------------------------
\* The place of a direction in the order DFS tries moves in.
PriorityRank(direction) ==
  CASE direction = UP -> 1
    [] direction = LEFT -> 2
    [] direction = DOWN -> 3
    [] direction = RIGHT -> 4

-----------------------------------------------------------------------------
(* SpecLive: the runs of Spec in which solve keeps running while it has a  *)
(* step to take; solve is sequential code that nothing suspends.           *)

SpecLive == Init /\ [][Next]_vars /\ WF_vars(Next)

\* C29: every call of DFSSolver.solve, BFSSolver.solve and AStarSolver.solve
\* eventually returns.
C29_Termination == <>Done

C29_Witness ==
  /\ Done
  /\ solver = "DFS"
  /\ depth_limit = MAX_DEPTH_DFS
  /\ total_nodes_visited >= 100

-----------------------------------------------------------------------------
(* SpecDFSRun: DFSSolver.solve as one step.  A traversal from a board far  *)
(* from the goal adds tens of thousands of tuples to visited, so the set   *)
(* is kept as a table: the tuples of visited that begin with the tiles     *)
(* a, b, c are the set at [a + 1][b + 1][c + 1].                           *)

VisitedEmpty == [a \in 1..9 |-> [b \in 1..9 |-> [c \in 1..9 |-> {}]]]

\* "tiles in visited"
VisitedHas(vis, tiles) ==
  tiles \in vis[tiles[1] + 1][tiles[2] + 1][tiles[3] + 1]

\* "visited.add(tiles)"
VisitedAdd(vis, tiles) ==
  [vis EXCEPT ![tiles[1] + 1][tiles[2] + 1][tiles[3] + 1] = @ \cup {tiles}]

\* dfs_with_depth_limit(state, visited, current_path, depth_limit,
\* nodes_visited).  `args` holds what a call only reads (state, the
\* configurations of current_path as path_set, depth_limit, and moves_to_try
\* once the call has computed it) and `search` what it hands on: the state
\* returned so far (PyNone for None), visited and nodes_visited[0].
\* DFS_try_move is one pass of the second "for" loop, for the idx-th direction
\* of moves_to_try; a node has at most four directions.
RECURSIVE dfs_with_depth_limit(_, _)
RECURSIVE DFS_try_move(_, _, _)
dfs_with_depth_limit(args, search) ==
  IF is_goal(args.state.state) THEN [search EXCEPT !.solution = args.state]
  ELSE IF Len(args.state.path) >= args.depth_limit THEN search
  ELSE LET frame == [args EXCEPT !.moves_to_try = get_ordered_moves(args.state)]
           result1 == DFS_try_move(frame, 1, search)
           result2 == DFS_try_move(frame, 2, result1)
           result3 == DFS_try_move(frame, 3, result2)
           result4 == DFS_try_move(frame, 4, result3)
       IN  IF result1.solution # PyNone THEN result1
           ELSE IF result2.solution # PyNone THEN result2
           ELSE IF result3.solution # PyNone THEN result3
           ELSE result4

DFS_try_move(frame, idx, search) ==
  IF idx > Len(frame.moves_to_try) THEN search
  ELSE IF is_reverse_move(last_move_of(frame.state), frame.moves_to_try[idx]) THEN search
  ELSE LET next_state == make_move(frame.state, frame.moves_to_try[idx])
       IN  IF next_state = PyNone THEN search
           ELSE IF \/ next_state.state \in frame.path_set
                   \/ VisitedHas(search.visited, next_state.state)
           THEN search
           ELSE dfs_with_depth_limit(
                  [frame EXCEPT !.state = next_state,
                                !.path_set = @ \cup {next_state.state}],
                  [search EXCEPT !.visited = VisitedAdd(@, next_state.state),
                                 !.nodes_visited = @ + 1])

\* The loop over the depth limits from `limit` on: the result of solve, the
\* last limit tried and total_nodes_visited.
RECURSIVE DFS_iterations(_, _, _, _)
DFS_iterations(initial_state, limit, total, opt) ==
  IF limit > MAX_DEPTH_DFS
  THEN [result |-> SolutionInfo(PyEnum("NO_SOLUTION"), PyNone, PyNone),
        depth_limit |-> MAX_DEPTH_DFS, total_nodes_visited |-> total]
  ELSE LET returned == dfs_with_depth_limit(
                         [state |-> initial_state, path_set |-> {initial_state.state},
                          depth_limit |-> limit, moves_to_try |-> <<>>],
                         [solution |-> PyNone, visited |-> VisitedEmpty, nodes_visited |-> 0])
       IN  IF returned.solution # PyNone
           THEN [result |-> SolutionInfo(PyEnum("SOLVED"), PyList(returned.solution.path), opt),
                 depth_limit |-> limit,
                 total_nodes_visited |-> total + returned.nodes_visited]
           ELSE DFS_iterations(initial_state, limit + 1, total + returned.nodes_visited, opt)

\* DFSSolver.solve.
DFS_solve(tiles, bp, n, opt) ==
  IF is_goal(tiles)
  THEN [result |-> SolutionInfo(PyEnum("ALREADY_SOLVED"), PyNone, PyNone),
        depth_limit |-> 0, total_nodes_visited |-> 0]
  ELSE IF ~is_solvable(tiles, bp, n)
  THEN [result |-> SolutionInfo(PyEnum("UNSOLVABLE"), PyNone, PyNone),
        depth_limit |-> 0, total_nodes_visited |-> 0]
  ELSE DFS_iterations(from_board(tiles, bp, n), 1, 0, opt)

DFSRunSolve ==
  /\ pc = "call"
  /\ solver = "DFS_RUN"
  /\ \E run \in {DFS_solve(board, blank_pos, size, optimal_length)} :
       /\ Return(run.result)
       /\ depth_limit' = run.depth_limit
       /\ total_nodes_visited' = run.total_nodes_visited
  /\ solvable_calls' = IF is_goal(board) THEN solvable_calls ELSE solvable_calls + 1
  /\ UNCHANGED <<solver, size, board, blank_pos, optimal_length, queue, visited,
                 nodes_visited, current_level, open_set, closed_set, stack, current_path,
                 solution, dist, aux>>

\* 3 x 3 boards 13 moves from the goal: solve gives up on the first and
\* returns a path of 15 moves from the second.
DFSFarInputs == {<<1, 5, 2, 0, 7, 8, 6, 4, 3>>, <<1, 0, 2, 3, 6, 8, 4, 7, 5>>}

\* The reference distances of SpecDFSRun are computed up to FarDist.
FarDist == 13

InitDFSRun ==
  /\ solver = "DFS_RUN"
  /\ size = 3
  /\ \E levels \in {RefLevels(Goal(size), size, FarDist)} :
       /\ board \in Within(levels, MaxDist) \cup DFSFarInputs
       /\ dist = RefDist(levels, board)
  /\ blank_pos = Board_blank_pos(board)
  /\ optimal_length = PyNone
  /\ pc = "call"
  /\ result = PyNone
  /\ solvable_calls = 0
  /\ NoSearchState

NextDFSRun == DFSRunSolve

SpecDFSRun == InitDFSRun /\ [][NextDFSRun]_vars

\* C30: from every 3 x 3 board whose least number of moves to the goal is
\* between 1 and MAX_DEPTH_DFS, DFSSolver.solve returns SOLVED.
C30_DFSCompleteUnderCeiling ==
  (Done /\ solver = "DFS_RUN" /\ size = 3 /\ dist >= 1 /\ dist <= MAX_DEPTH_DFS) =>
    (result.status = PyEnum("SOLVED"))

-----------------------------------------------------------------------------
(* SpecWalk: a Solver is built on a Board, and then is_solvable is asked   *)
(* and the Board moved (make_move changes it in place, and the Solver      *)
(* reads the same Board), again and again, in any direction.  The walks    *)
(* start at the goal and at the goal with tiles 1 and 2 exchanged, which   *)
(* the moves cannot bring to the goal.  solvable_calls counts the calls    *)
(* within one solve() and stays 0 here.                                    *)

InitWalk ==
  /\ solver = "walk"
  /\ size \in Sizes
  /\ \E levels \in {RefLevels(Goal(size), size, FullDepth)} :
       /\ board \in {Goal(size), ExchangeTiles(Goal(size), 1, 2)}
       /\ dist = RefDist(levels, board)
  /\ blank_pos = Board_blank_pos(board)
  /\ optimal_length = PyNone
  /\ pc = "call"
  /\ result = PyNone
  /\ solvable_calls = 0
  /\ NoSearchState

Walk_unchanged ==
  UNCHANGED <<solver, size, optimal_length, queue, visited, nodes_visited,
              current_level, open_set, closed_set, depth_limit, stack, current_path,
              solution, total_nodes_visited, solvable_calls, dist, state_obj, call>>

\* solver.is_solvable()
WalkIsSolvable ==
  /\ solver = "walk"
  /\ pc = "call"
  /\ result' = PyBool(is_solvable(board, blank_pos, size))
  /\ first_result' = IF first_result = Unset THEN result' ELSE first_result
  /\ pc' = "move"
  /\ UNCHANGED <<board, blank_pos>>
  /\ Walk_unchanged

\* board.make_move(direction)
WalkMakeMove ==
  /\ solver = "walk"
  /\ pc = "move"
  /\ \E direction \in Direction :
       \E after \in {Board_make_move(board, blank_pos, size, direction)} :
         /\ board' = after.state
         /\ blank_pos' = after.blank_pos
         /\ result' = after.returned
  /\ pc' = "call"
  /\ UNCHANGED first_result
  /\ Walk_unchanged

NextWalk ==
  \/ WalkIsSolvable
  \/ WalkMakeMove

SpecWalk == InitWalk /\ [][NextWalk]_vars

\* C31: on a 2 x 2 or 3 x 3 board, whatever moves have been made since, every
\* call of is_solvable returns what the first call returned: a move never
\* changes the verdict, and the verdict is the same all over the part of the
\* move graph the walk can reach.
C31_VerdictMoveInvariant ==
  (solver = "walk" /\ pc = "move") => (result = first_result)

\* A 3 x 3 board 31 moves from the goal, asked after the walk got there.
C31_Witness ==
  /\ solver = "walk" /\ pc = "move"
  /\ size = 3
  /\ board = <<8, 6, 7, 2, 5, 4, 3, 0, 1>>
  /\ dist = 0
  /\ result = first_result

-----------------------------------------------------------------------------
\* C32: in a run of AStarSolver.solve every entry of the open set has g_cost
\* equal to the length of its path, h_cost equal to the Manhattan distance of
\* its tiles, and g_cost + h_cost equal to the Manhattan distance of the
\* initial configuration; and a move list that solve returns is as long as
\* the Manhattan distance of the initial configuration.
C32_AStarFrontierFCost ==
  (solver = "ASTAR" /\ pc # "call") =>
    /\ \A i \in 1..Len(open_set) :
         /\ open_set[i].g_cost = Len(open_set[i].path)
         /\ open_set[i].h_cost = manhattan_distance(open_set[i].state, size)
         /\ f_cost(open_set[i]) = manhattan_distance(board, size)
    /\ (Done /\ HasMoveList(result)) =>
         ReturnedLength(result) = manhattan_distance(board, size)

\* A move list of 9 moves returned while entries pushed on the way are still
\* in the open set.
C32_Witness ==
  /\ solver = "ASTAR"
  /\ Done
  /\ size = 3
  /\ HasMoveList(result)
  /\ ReturnedLength(result) = 9
  /\ manhattan_distance(board, size) = 9
  /\ Len(open_set) >= 3
  /\ \E i \in 1..Len(open_set) : open_set[i].g_cost >= 3

====
